---- MODULE Spec2Model ----
(***************************************************************************)
(* The WhatsApp bridge of src/index.js: the registry `sessions`, the       *)
(* per-connection Session Records, the whatsapp-web.js Clients constructed *)
(* by initClient, the HTTP handlers, the startup restore and the two       *)
(* periodic sweeps.                                                        *)
(*                                                                         *)
(* Node runs one handler at a time; a handler gives up control only at an  *)
(* `await`.  Every action below is the code that runs between two awaits   *)
(* of one handler, so the interleavings of the model are those of the      *)
(* event loop.  A suspended handler is an element of `tasks` holding what  *)
(* its closure captured: the record object and, where the code called a    *)
(* method on it before the await, the Client.                              *)
(***************************************************************************)
EXTENDS Integers, Sequences, FiniteSets, TLC

\* ---------------------------------------------------------------- bounds
MaxHandles == 2      \* Client objects in existence at one time
MaxObjs    == 1      \* Session Record objects in existence at one time
MaxObjsEvicted == 2  \* the same in EvictionSpec: a record removed during an await
                     \* and the record that replaces it
MaxObjsSwept == 2    \* the same in SweepSpec: the records of two identifiers
MaxTasks   == 1      \* handlers suspended at an await at one time
MaxLen     == 3      \* length of a destination string in NormSpec

\* ------------------------------------------------------- value domains
Ids      == {"c1", "c2"}                  \* connection identifiers (registry keys)
Callers  == {"c1"}                        \* the identifiers requests of Spec name
Null     == "null"                        \* JS null / undefined
Webhooks == {"http://a"}                  \* webhook_url values
Phones   == {"40712345678"}               \* client.info.wid.user
QrCodes  == {"qr1"}                       \* pairing strings of the 'qr' event
NoQr     == <<>>                          \* session.qr === null
NoClient == 0                             \* session.client === null
NoObj    == 0                             \* sessions[id] === undefined
Free     == [free |-> TRUE]               \* an unused object / handle number

Active   == {"connected", "connecting", "qr_pending"}
Statuses == Active \cup {"disconnected"}

VARIABLES
  sessions,   \* the registry: connection_id -> record object number (NoObj: no key)
  heap,       \* the Session Record objects, by object number
  clients,    \* the Client objects, by handle number
  tasks,      \* handlers and event callbacks suspended at an await
  restore,    \* the session directories restoreSessions has still to start
  resp,       \* the HTTP response written by the last step (NoResp: none)
  emitted,    \* the outbound POSTs (status callback, webhook) of the last step
  timedOut,   \* history: the identifiers a liveness check of which hit its timer,
              \* with no get-qr, restore or reconnect for them since
  supplied    \* history: connection_id -> the last non-empty webhook_url a get-qr or
              \* reconnect request brought for it since its key is in the registry

vars == <<sessions, heap, clients, tasks, restore, resp, emitted, timedOut, supplied>>

NoResp == [ep |-> "none"]

Handles == 1..(MaxHandles + 1)   \* the last number is never kept: see Fits
ObjIds  == 1..(MaxObjs + 1)

\* ------------------------------------------------------------ registry
\* The variables a handler's synchronous code reads and writes.
Store == [sessions |-> sessions, heap |-> heap, clients |-> clients]

Min(S) == CHOOSE x \in S : \A y \in S : x <= y
NewObj(s)    == Min({o \in DOMAIN s.heap : s.heap[o] = Free})
NewHandle(s) == Min({h \in Handles : s.clients[h] = Free})

\* Instead of lastActivity a record keeps `inactive`: whether Date.now() -
\* lastActivity exceeds maxInactive (src/index.js:606), the one test the code makes
\* of it.
\* src/index.js:22 `sessions = {}` is a plain object, so `sessions[connection_id]`
\* also finds the members of Object.prototype.  Such a key is never a key of the
\* registry; the requests and the session directories of the model use none (Ids).
Inherited == {"constructor"}

\* src/index.js:33 the record getSession creates
NewRecord == [client |-> NoClient, qr |-> NoQr, status |-> "disconnected",
              phone |-> Null, webhookUrl |-> Null, inactive |-> FALSE]

\* src/index.js:31 getSession: the registry and the objects after the call.  For an
\* inherited key line 32 finds the member, and line 42 writes lastActivity on it.
getSession(s, id) ==
  IF id \in Inherited
  THEN s
  ELSE IF s.sessions[id] = NoObj
  THEN [s EXCEPT !.heap[NewObj(s)] = NewRecord,
                 !.sessions[id] = NewObj(s)]
  ELSE [s EXCEPT !.heap[s.sessions[id]].inactive = FALSE]

\* Object.prototype.constructor after line 42: it has a lastActivity and none of the
\* fields of a record
ObjectMember == [inactive |-> FALSE]

\* src/index.js:43 the object getSession returns, `s` being the store after the call
Returned(s, id) == IF id \in Inherited THEN ObjectMember ELSE s.heap[s.sessions[id]]

\* JS truthiness of a string-or-null value
Truthy(v) == v # Null /\ v # ""

\* the guard, were it to leave out the status connecting
AlreadyStarted_NotWhileConnecting(rec) ==
  rec.client # NoClient /\ rec.status \in {"connected", "qr_pending"}

\* src/index.js:115, the re-entry guard of initClient
AlreadyStarted(rec) == rec.client # NoClient /\ rec.status \in Active

\* src/index.js:106 initClient; the record it returns is s.sessions[id] of the result
initClient(s, id, webhookUrl) ==
  LET s1 == getSession(s, id)
      o  == s1.sessions[id]
      s2 == IF Truthy(webhookUrl)
            THEN [s1 EXCEPT !.heap[o].webhookUrl = webhookUrl] ELSE s1
  IN IF AlreadyStarted(s2.heap[o])
     THEN s2
     ELSE [s2 EXCEPT !.heap[o].status = "connecting",
                     !.heap[o].qr = NoQr,
                     !.heap[o].client = NewHandle(s2),
                     !.clients[NewHandle(s2)] =
                        [conn |-> id, session |-> o, phase |-> "starting",
                         init |-> "pending"]]

\* src/index.js:80 sendStatusCallback(connection_id, status, phone_number = null)
sendStatusCallback(id, status, phone) ==
  [to |-> "CALLBACK_URL", conn |-> id, status |-> status, phone |-> phone]

\* ------------------------------------------- objects no code can reach
(***************************************************************************)
(* A Client that is closed and whose initialize() has settled runs no more *)
(* code; once no record and no suspended handler refers to it, its number  *)
(* is reused.  A record object deleted from the registry is reused once no *)
(* Client closure and no suspended handler refers to it.  (The JS garbage  *)
(* collector.)                                                             *)
(***************************************************************************)
Running(c) == c # Free /\ (c.phase # "closed" \/ c.init = "pending")

RECURSIVE Reach(_, _, _, _)
Reach(s, os, hs, n) ==
  IF n = 0 THEN [os |-> os, hs |-> hs]
  ELSE Reach(s,
             os \cup {s.clients[h].session : h \in hs},
             hs \cup ({s.heap[o].client : o \in os} \ {NoClient}),
             n - 1)

\* the entries a suspended keep-alive sweep has still to visit
Queued(t) == IF t.kind = "sweep" THEN {t.locals[i] : i \in DOMAIN t.locals} ELSE {}

Collect(s, T) ==
  LET os0 == ({s.sessions[id] : id \in Ids} \cup {t.session : t \in T}
              \cup UNION {{e[2] : e \in Queued(t)} : t \in T}) \ {NoObj}
      hs0 == ({t.client : t \in T} \ {NoClient})
             \cup {h \in Handles : Running(s.clients[h])}
      r   == Reach(s, os0, hs0, Cardinality(DOMAIN s.heap) + MaxHandles + 1)
  IN [s EXCEPT !.heap    = [o \in DOMAIN s.heap |-> IF o \in r.os THEN s.heap[o] ELSE Free],
               !.clients = [h \in Handles |-> IF h \in r.hs THEN s.clients[h] ELSE Free]]

\* The bounds: the step is left out if it needs one object more than they allow.
\* (The initial state sets the number of record objects: the last is never kept.)
Fits(s, T) ==
  /\ s.heap[Cardinality(DOMAIN s.heap)] = Free
  /\ s.clients[MaxHandles + 1] = Free
  /\ Cardinality(T) <= MaxTasks

Commit(s, T) ==
  LET c == Collect(s, T) IN
  /\ Fits(c, T)
  /\ sessions' = c.sessions
  /\ heap' = c.heap
  /\ clients' = c.clients
  /\ tasks' = T

Out(r, posts) ==
  resp' = r /\ emitted' = posts /\ timedOut' = timedOut /\ supplied' = supplied

\* the same, for a step that deletes the keys `ids` from the registry
OutDeleted(r, posts, ids) ==
  /\ resp' = r /\ emitted' = posts /\ timedOut' = timedOut
  /\ supplied' = [id \in Ids |-> IF id \in ids THEN Null ELSE supplied[id]]

\* the same, for a step that is a start request for `id` (initClient, reconnect)
OutStart(r, posts, id) ==
  resp' = r /\ emitted' = posts /\ timedOut' = timedOut \ {id} /\ supplied' = supplied

\* the same, for the step in which a get-qr or reconnect request for `id` arrives
OutRequest(r, posts, id, webhook_url) ==
  /\ resp' = r /\ emitted' = posts /\ timedOut' = timedOut \ {id}
  /\ supplied' = IF Truthy(webhook_url)
                 THEN [supplied EXCEPT ![id] = webhook_url] ELSE supplied

\* the same, for a step that ends a liveness check of `id` with `state`
OutChecked(r, posts, id, state) ==
  /\ resp' = r
  /\ emitted' = posts
  /\ timedOut' = IF state = "timeout" THEN timedOut \cup {id} ELSE timedOut
  /\ supplied' = supplied

\* A suspended handler.  `locals` is a sequence: the values its closure holds besides.
\* `n` tells apart handlers suspended with equal closures.
Task(kind, pc, id, o, h, locals) ==
  [kind |-> kind, pc |-> pc, conn |-> id, session |-> o, client |-> h, locals |-> locals, n |-> 1]

Suspend(T, t) ==
  LET k == Min({j \in 1..(MaxTasks + 1) : [t EXCEPT !.n = j] \notin T})
  IN T \cup {[t EXCEPT !.n = k]}

\* ------------------------------------------------------- request bodies
\* src/index.js:339 connId = connection_id || instance_id
ConnId(body) == IF Truthy(body.connection_id) THEN body.connection_id ELSE body.instance_id

\* ------------------------------------------------------------ get-qr
\* src/index.js:350 the response of get-qr for the record initClient returned
GetQrResponse(id, rec) ==
  IF rec.status = "connected"
  THEN [ep |-> "get-qr", conn |-> id, code |-> 200, line |-> 351,
        body |-> [status |-> "connected", phone_number |-> rec.phone]]
  ELSE IF rec.qr # NoQr
  THEN [ep |-> "get-qr", conn |-> id, code |-> 200, line |-> 359,
        body |-> [qr |-> rec.qr, status |-> "qr_pending"]]
  ELSE [ep |-> "get-qr", conn |-> id, code |-> 200, line |-> 366,
        body |-> [status |-> "pending"]]

\* src/index.js:341 and the like: the 400 of a request that names no connection
Required(ep, line) ==
  [ep |-> ep, conn |-> Null, code |-> 400, line |-> line,
   body |-> [error |-> "connection_id required"]]

\* src/index.js:337 POST /api/get-qr
GetQr(body) ==
  LET id == ConnId(body) IN
  IF ~Truthy(id)
  THEN /\ Out(Required("get-qr", 342), <<>>)
       /\ UNCHANGED <<sessions, heap, clients, tasks, restore>>
  ELSE LET s == initClient(Store, id, body.webhook_url)
       IN /\ Commit(s, tasks)
          /\ OutRequest(GetQrResponse(id, s.heap[s.sessions[id]]), <<>>, id, body.webhook_url)
          /\ UNCHANGED restore

GetQrBodies ==
  [connection_id : Callers, instance_id : {Null}, webhook_url : Webhooks \cup {Null}]


\* ------------------------------------------------------ adapter events
(***************************************************************************)
(* The handlers initClient registers on a Client.  Each closure captured   *)
(* the record object `session` (clients[h].session), the Client (h) and    *)
(* connection_id (clients[h].conn).  The library is an opaque              *)
(* collaborator; it is taken to emit, per Client: 'qr' any number of       *)
(* times, then 'authenticated', then 'ready', then 'change_state' and      *)
(* 'message'; an 'auth_failure' or a rejected initialize() before it is    *)
(* ready; and 'disconnected' once, after which it emits nothing.  A        *)
(* destroyed Client emits nothing, but a pending initialize() may still    *)
(* reject.                                                                 *)
(***************************************************************************)
Constructed == {h \in Handles : clients[h] # Free}

\* The Clients whose browser session exists: constructed, not destroyed, not ended.
Live(s) == {h \in Handles : s.clients[h] # Free /\ s.clients[h].phase # "closed"}

\* QRCode.toDataURL: the data URL of a pairing string
toDataURL(qr) == <<"data:image/png;base64", qr>>

\* src/index.js:152 client.on('qr'), up to the await of QRCode.toDataURL
OnQr(h, qr) ==
  /\ clients[h].phase \in {"starting", "pairing"}
  /\ Commit([Store EXCEPT !.clients[h].phase = "pairing"],
            Suspend(tasks, Task("qr", "toDataURL", clients[h].conn, clients[h].session, h, <<qr>>)))
  /\ Out(NoResp, <<>>)
  /\ UNCHANGED restore

\* src/index.js:157 client.on('qr'), after the await (ok: toDataURL resolved)
OnQrRendered(t, ok) ==
  /\ t.kind = "qr"
  /\ IF ok
     THEN /\ Commit([Store EXCEPT !.heap[t.session].qr = toDataURL(t.locals[1]),
                                  !.heap[t.session].status = "qr_pending"],
                    tasks \ {t})
          /\ Out(NoResp, <<sendStatusCallback(t.conn, "qr_pending", Null)>>)
     ELSE /\ Commit(Store, tasks \ {t})
          /\ Out(NoResp, <<>>)
  /\ UNCHANGED restore

\* src/index.js:166 client.on('ready'), up to the await of applyRuntimePatches
OnReady(h) ==
  LET o == clients[h].session IN
  /\ clients[h].phase = "authenticated"
  /\ Commit([Store EXCEPT !.clients[h].phase = "ready",
                          !.clients[h].init = "done",
                          !.heap[o].status = "connected",
                          !.heap[o].qr = NoQr],
            Suspend(tasks, Task("ready", "patch", clients[h].conn, o, h, <<>>)))
  /\ Out(NoResp, <<>>)
  /\ UNCHANGED restore

\* src/index.js:174 client.on('ready'), after the await; user is client.info?.wid?.user
OnReadyPatched(t, user) ==
  /\ t.kind = "ready"
  /\ Commit([Store EXCEPT !.heap[t.session].phone = user], tasks \ {t})
  /\ Out(NoResp, <<sendStatusCallback(t.conn, "connected", user)>>)
  /\ UNCHANGED restore

\* src/index.js:187 client.on('authenticated')
OnAuthenticated(h) ==
  LET o == clients[h].session IN
  /\ clients[h].phase \in {"starting", "pairing"}
  /\ Commit([Store EXCEPT !.clients[h].phase = "authenticated",
                          !.heap[o].status = "connecting",
                          !.heap[o].qr = NoQr], tasks)
  /\ Out(NoResp, <<>>)
  /\ UNCHANGED restore

\* src/index.js:193 client.on('auth_failure')
OnAuthFailure(h) ==
  LET o == clients[h].session IN
  /\ clients[h].phase \in {"starting", "pairing"}
  /\ Commit([Store EXCEPT !.clients[h].phase = "closed",
                          !.clients[h].init = "done",
                          !.heap[o].status = "disconnected",
                          !.heap[o].qr = NoQr,
                          !.heap[o].client = NoClient], tasks)
  /\ Out(NoResp, <<sendStatusCallback(clients[h].conn, "disconnected", Null)>>)
  /\ UNCHANGED restore

\* src/index.js:201 client.on('disconnected')
OnDisconnected(h) ==
  LET o == clients[h].session IN
  /\ clients[h].phase \in {"pairing", "authenticated", "ready"}
  /\ Commit([Store EXCEPT !.clients[h].phase = "closed",
                          !.clients[h].init = "done",
                          !.heap[o].status = "disconnected",
                          !.heap[o].qr = NoQr,
                          !.heap[o].phone = Null,
                          !.heap[o].client = NoClient], tasks)
  /\ Out(NoResp, <<sendStatusCallback(clients[h].conn, "disconnected", Null)>>)
  /\ UNCHANGED restore

\* the WAState values of 'change_state' and getState()
Invalidating == {"CONFLICT", "UNLAUNCHED", "UNPAIRED"}
WAStates     == Invalidating \cup {"CONNECTED", "OPENING"}

\* src/index.js:211 client.on('change_state')
OnChangeState(h, state) ==
  LET o == clients[h].session IN
  /\ clients[h].phase = "ready"
  /\ IF state \in Invalidating
     THEN /\ Commit([Store EXCEPT !.heap[o].status = "disconnected",
                                  !.heap[o].qr = NoQr,
                                  !.heap[o].phone = Null], tasks)
          /\ Out(NoResp, <<sendStatusCallback(clients[h].conn, "disconnected", Null)>>)
     ELSE /\ Commit(Store, tasks)
          /\ Out(NoResp, <<>>)
  /\ UNCHANGED restore

\* src/index.js:223 client.on('message'): the POST to session.webhookUrl, if any
OnMessage(h) ==
  LET o == clients[h].session IN
  /\ clients[h].phase = "ready"
  /\ Commit(Store, tasks)
  /\ Out(NoResp,
         IF Truthy(heap[o].webhookUrl)
         THEN <<[to |-> heap[o].webhookUrl, conn |-> clients[h].conn, event |-> "message"]>>
         ELSE <<>>)
  /\ UNCHANGED restore

\* the catch, were it to start the Client of the identifier anew
OnInitError_Restarted(h) ==
  LET o == clients[h].session IN
  /\ clients[h].init = "pending"
  /\ Commit(initClient([Store EXCEPT !.clients[h].phase = "closed",
                                     !.clients[h].init = "done",
                                     !.heap[o].status = "disconnected",
                                     !.heap[o].client = NoClient],
                       clients[h].conn, Null), tasks)
  /\ Out(NoResp, <<sendStatusCallback(clients[h].conn, "disconnected", Null)>>)
  /\ UNCHANGED restore

\* src/index.js:252 client.initialize().catch
OnInitError(h) ==
  LET o == clients[h].session IN
  /\ clients[h].init = "pending"
  /\ Commit([Store EXCEPT !.clients[h].phase = "closed",
                          !.clients[h].init = "done",
                          !.heap[o].status = "disconnected",
                          !.heap[o].client = NoClient], tasks)
  /\ Out(NoResp, <<sendStatusCallback(clients[h].conn, "disconnected", Null)>>)
  /\ UNCHANGED restore

\* how the fetch of a notification ends, when it ends
PostOutcomes == {"ok", "rejected"}

\* the continuation, were a rejected POST sent once more
PostSettled_Retried(outcome) ==
  /\ emitted # <<>>
  /\ emitted' = IF outcome = "rejected" /\ Len(emitted) = 1
                THEN emitted \o emitted ELSE Tail(emitted)
  /\ UNCHANGED <<sessions, heap, clients, tasks, restore, resp, timedOut, supplied>>

\* src/index.js:98 and src/index.js:246 what runs after `await fetch` of a notification
\* of the last step: the response is logged, or the catch logs the error.  No caller
\* awaits sendStatusCallback and nothing follows the fetch of the message handler,
\* so no other code waits for this step; a POST that never completes never takes it.
PostSettled(outcome) ==
  /\ emitted # <<>>
  /\ outcome \in PostOutcomes
  /\ emitted' = Tail(emitted)
  /\ UNCHANGED <<sessions, heap, clients, tasks, restore, resp, timedOut, supplied>>

AdapterEvent ==
  \/ \E h \in Constructed, qr \in QrCodes : OnQr(h, qr)
  \/ \E t \in tasks, ok \in BOOLEAN : OnQrRendered(t, ok)
  \/ \E h \in Constructed : OnAuthenticated(h)
  \/ \E h \in Constructed : OnReady(h)
  \/ \E t \in tasks, user \in Phones \cup {Null} : OnReadyPatched(t, user)
  \/ \E h \in Constructed : OnAuthFailure(h)
  \/ \E h \in Constructed : OnDisconnected(h)
  \/ \E h \in Constructed, state \in WAStates : OnChangeState(h, state)
  \/ \E h \in Constructed : OnMessage(h)
  \/ \E h \in Constructed : OnInitError(h)


\* --------------------------------------------- calls into the library
\* What client.getState() can do, by what the Client is doing.  "error" is a
\* rejected promise, "timeout" a promise that does not settle before the timer.
getState(c) ==
  IF c.phase = "ready" THEN {"CONNECTED", "OPENING", "error", "timeout"}
  ELSE IF c.phase = "closed" THEN {"error", "timeout"}
  ELSE {"OPENING", "error", "timeout"}

\* What client.destroy() can do: close the browser ("closed"), close it while
\* initialize() is pending, which then rejects ("closing"), or throw.
destroy(c) ==
  {"closed", "throws"} \cup (IF c.init = "pending" THEN {"closing"} ELSE {})

\* What client.logout() can do: log out and close the browser, or throw (it
\* evaluates in the page, which has no Store before the Client is ready).
logout(c) == destroy(c)

\* What client.sendMessage() can do; "timeout": the 30 s timer of line 521 wins.
sendMessage(c) ==
  (IF c.phase = "ready" THEN {"ok"} ELSE {})
  \cup {"Protocol error", "Session closed", "Evaluation failed", "timeout"}

\* The Client after destroy() or logout() returned `result`
Closed(s, h, result) ==
  IF result = "closed"
  THEN [s EXCEPT !.clients[h].phase = "closed", !.clients[h].init = "done"]
  ELSE IF result = "closing"
  THEN [s EXCEPT !.clients[h].phase = "closed"]
  ELSE s

\* verifyConnectionState, were it to report a failed check and leave the record alone
verifyConnectionState_RecordKept(s, o, id, state) ==
  IF state = "CONNECTED"
  THEN [store |-> s, posts |-> <<>>, connected |-> TRUE, reason |-> <<>>]
  ELSE [store |-> s, posts |-> <<>>, connected |-> FALSE,
        reason |-> IF state \in {"error", "timeout"}
                   THEN <<"state_check_error">> ELSE <<"state_", state>>]

\* src/index.js:299 verifyConnectionState, from the settling of the race of line 311
verifyConnectionState(s, o, id, state) ==
  IF state = "CONNECTED"
  THEN [store |-> s, posts |-> <<>>, connected |-> TRUE, reason |-> <<>>]
  ELSE IF state \in {"error", "timeout"}
  THEN [store |-> [s EXCEPT !.heap[o].status = "disconnected",
                            !.heap[o].client = NoClient],
        posts |-> <<sendStatusCallback(id, "disconnected", Null)>>,
        connected |-> FALSE, reason |-> <<"state_check_error">>]
  ELSE [store |-> [s EXCEPT !.heap[o].status = "disconnected"],
        posts |-> <<sendStatusCallback(id, "disconnected", Null)>>,
        connected |-> FALSE, reason |-> <<"state_", state>>]

\* ------------------------------------------------------------- status
\* src/index.js:393 the response of status from the record
StatusResponse(id, rec) ==
  [ep |-> "status", conn |-> id, code |-> 200, line |-> 393,
   body |-> [status |-> rec.status, phone_number |-> rec.phone, has_qr |-> rec.qr # NoQr]]

\* src/index.js:370 POST /api/status, up to the await of verifyConnectionState
Status(body) ==
  LET id == ConnId(body) IN
  IF ~Truthy(id)
  THEN /\ Out(Required("status", 375), <<>>)
       /\ UNCHANGED <<sessions, heap, clients, tasks, restore>>
  ELSE LET s   == getSession(Store, id)
           o   == s.sessions[id]
           rec == s.heap[o]
       IN /\ IF rec.status = "connected" /\ rec.client # NoClient
             THEN /\ Commit(s, Suspend(tasks, Task("status", "getState", id, o, rec.client, <<>>)))
                  /\ Out(NoResp, <<>>)
             ELSE /\ Commit(s, tasks)
                  /\ Out(StatusResponse(id, rec), <<>>)
          /\ UNCHANGED restore

\* src/index.js:383 POST /api/status, after the await
StatusVerified(t, state) ==
  LET v == verifyConnectionState(Store, t.session, t.conn, state) IN
  /\ t.kind = "status"
  /\ state \in getState(clients[t.client])
  /\ Commit(v.store, tasks \ {t})
  /\ OutChecked(IF v.connected
         THEN StatusResponse(t.conn, v.store.heap[t.session])
         ELSE [ep |-> "status", conn |-> t.conn, code |-> 200, line |-> 384,
               body |-> [status |-> "disconnected", phone_number |-> Null,
                         has_qr |-> FALSE, reason |-> v.reason]],
         v.posts, t.conn, state)
  /\ UNCHANGED restore

\* --------------------------------------------------------- keep-alive
\* src/index.js:551 POST /api/keep-alive, up to the await of verifyConnectionState
KeepAlive(body) ==
  LET id == ConnId(body) IN
  IF ~Truthy(id)
  THEN /\ Out(Required("keep-alive", 556), <<>>)
       /\ UNCHANGED <<sessions, heap, clients, tasks, restore>>
  ELSE LET s   == getSession(Store, id)
           o   == s.sessions[id]
           rec == s.heap[o]
       IN /\ IF rec.client # NoClient /\ rec.status = "connected"
             THEN /\ Commit(s, Suspend(tasks, Task("keep-alive", "getState", id, o, rec.client, <<>>)))
                  /\ Out(NoResp, <<>>)
             ELSE /\ Commit(s, tasks)
                  /\ Out([ep |-> "keep-alive", conn |-> id, code |-> 200, line |-> 570,
                          body |-> [status |-> "not_connected",
                                    connection_status |-> rec.status]], <<>>)
          /\ UNCHANGED restore

\* src/index.js:563 POST /api/keep-alive, after the await
KeepAliveVerified(t, state) ==
  LET v == verifyConnectionState(Store, t.session, t.conn, state) IN
  /\ t.kind = "keep-alive"
  /\ state \in getState(clients[t.client])
  /\ IF v.connected
     THEN /\ Commit([v.store EXCEPT !.heap[t.session].inactive = FALSE], tasks \ {t})
          /\ OutChecked([ep |-> "keep-alive", conn |-> t.conn, code |-> 200, line |-> 565,
                  body |-> [status |-> "alive", connection_status |-> "connected",
                            state |-> state]], v.posts, t.conn, state)
     ELSE /\ Commit(v.store, tasks \ {t})
          /\ OutChecked([ep |-> "keep-alive", conn |-> t.conn, code |-> 200, line |-> 567,
                  body |-> [status |-> "disconnected", reason |-> v.reason,
                            needs_reconnect |-> TRUE]], v.posts, t.conn, state)
  /\ UNCHANGED restore

IdBodies == [connection_id : Callers, instance_id : {Null}]


\* ------------------------------------------------------- send-message
\* A destination is a sequence of one-character strings.
Digits == {"0", "1", "2", "3", "4", "5", "6", "7", "8", "9"}
Chars  == Digits \cup {"+", " ", "@", "g"}
Suffix == <<"@", "c", ".", "u", "s">>

Range(f) == {f[i] : i \in DOMAIN f}

\* to.replace(/[^0-9]/g, '')
RECURSIVE StripNonDigits(_)
StripNonDigits(str) ==
  IF str = <<>> THEN <<>>
  ELSE IF Head(str) \in Digits
  THEN <<Head(str)>> \o StripNonDigits(Tail(str))
  ELSE StripNonDigits(Tail(str))

\* chatId, were the non-digits to stay
chatId_Unstripped(to) == IF "@" \in Range(to) THEN to ELSE to \o Suffix

\* src/index.js:510 chatId
chatId(to) == IF "@" \in Range(to) THEN to ELSE StripNonDigits(to) \o Suffix

Reply(ep, id, code, line, body) ==
  [ep |-> ep, conn |-> id, code |-> code, line |-> line, body |-> body]

\* the basic check, were it to test the handle only
NotConnected_HandleOnly(rec) == rec.client = NoClient

\* the validation, were it to test the connection only
Complete_IdOnly(body) == Truthy(ConnId(body))

\* src/index.js:473 the validation of send-message
Complete(body) == Truthy(ConnId(body)) /\ body.to # <<>> /\ Truthy(body.message)

\* src/index.js:482 the basic check of send-message
NotConnected(rec) == rec.client = NoClient \/ rec.status # "connected"

\* src/index.js:469 POST /api/send-message, up to the await of verifyConnectionState
SendMessage(body) ==
  LET id == ConnId(body) IN
  IF ~Complete(body)
  THEN /\ Out(Reply("send-message", id, 400, 474,
                    [error |-> "connection_id, to, and message required"]), <<>>)
       /\ UNCHANGED <<sessions, heap, clients, tasks, restore>>
  ELSE LET s   == getSession(Store, id)
           o   == s.sessions[id]
           rec == s.heap[o]
       IN /\ IF NotConnected(rec)
             THEN /\ Commit(s, tasks)
                  /\ Out(Reply("send-message", id, 400, 484,
                               [error |-> "Connection not connected",
                                status |-> rec.status, needs_reconnect |-> TRUE]), <<>>)
             ELSE /\ Commit(s, Suspend(tasks,
                              Task("send-message", "getState", id, o, rec.client, <<body.to>>)))
                  /\ Out(NoResp, <<>>)
          /\ UNCHANGED restore

\* src/index.js:494 POST /api/send-message, after the await of verifyConnectionState
SendVerified(t, state) ==
  LET v == verifyConnectionState(Store, t.session, t.conn, state) IN
  /\ t.kind = "send-message" /\ t.pc = "getState"
  /\ state \in getState(clients[t.client])
  /\ IF v.connected
     THEN /\ Commit(v.store, Suspend(tasks \ {t}, [t EXCEPT !.pc = "humanDelay", !.n = 1]))
          /\ OutChecked(NoResp, v.posts, t.conn, state)
     ELSE /\ Commit(v.store, tasks \ {t})
          /\ OutChecked(Reply("send-message", t.conn, 400, 496,
                              [error |-> "WhatsApp session expired. Please reconnect.",
                               status |-> "disconnected", reason |-> v.reason,
                               needs_reconnect |-> TRUE]), v.posts, t.conn, state)
  /\ UNCHANGED restore

\* src/index.js:507 POST /api/send-message, after the awaits of applyRuntimePatches
\* and humanDelay: session.client.sendMessage(chatId, message) is called, or, the
\* record holding no client by now, throws a TypeError that line 532 catches.
\* The closure holds `to` and `chatId` from here on.
SendCall(t) ==
  LET cur == heap[t.session].client IN
  /\ t.kind = "send-message" /\ t.pc = "humanDelay"
  /\ IF cur = NoClient
     THEN /\ Commit(Store, tasks \ {t})
          /\ Out(Reply("send-message", t.conn, 500, 546, [error |-> "TypeError"]), <<>>)
     ELSE /\ Commit(Store, Suspend(tasks \ {t},
                      [t EXCEPT !.pc = "sendMessage", !.client = cur,
                                !.locals = <<t.locals[1], chatId(t.locals[1])>>, !.n = 1]))
          /\ Out(NoResp, <<>>)
  /\ UNCHANGED restore

\* the test of the error, were every error to count as a lost connection
Fatal_AnyError(result) == result # "ok"

\* src/index.js:536 the test of the error's message
Fatal(result) == result \in {"Protocol error", "Session closed"}

\* src/index.js:524 POST /api/send-message, after the race of the send and its timer
SendReturned(t, result) ==
  /\ t.kind = "send-message" /\ t.pc = "sendMessage"
  /\ result \in sendMessage(clients[t.client])
  /\ IF result = "ok"
     THEN /\ Commit(Store, tasks \ {t})
          /\ Out(Reply("send-message", t.conn, 200, 527,
                       [success |-> TRUE]), <<>>)
     ELSE IF Fatal(result)
     THEN /\ Commit([Store EXCEPT !.heap[t.session].status = "disconnected",
                                  !.heap[t.session].client = NoClient], tasks \ {t})
          /\ Out(Reply("send-message", t.conn, 400, 540,
                       [error |-> "Connection lost during send. Please reconnect.",
                        needs_reconnect |-> TRUE]),
                 <<sendStatusCallback(t.conn, "disconnected", Null)>>)
     ELSE /\ Commit(Store, tasks \ {t})
          /\ Out(Reply("send-message", t.conn, 500, 546, [error |-> result]), <<>>)
  /\ UNCHANGED restore

SendBodies ==
  [connection_id : Callers, instance_id : {Null},
   to : {<<>>, <<"+", "4", "0">>}, message : {"hi"}]

\* --------------------------------------------------------- disconnect
\* src/index.js:422 the end of disconnect
Disconnected(s, id, o) ==
  [store |-> [s EXCEPT !.heap[o].client = NoClient, !.heap[o].qr = NoQr,
                       !.heap[o].status = "disconnected", !.heap[o].phone = Null],
   resp  |-> Reply("disconnect", id, 200, 427, [status |-> "disconnected"])]

\* src/index.js:401 POST /api/disconnect, up to the await of logout
Disconnect(body) ==
  LET id == ConnId(body) IN
  IF ~Truthy(id)
  THEN /\ Out(Required("disconnect", 406), <<>>)
       /\ UNCHANGED <<sessions, heap, clients, tasks, restore>>
  ELSE LET s == getSession(Store, id)
           o == s.sessions[id]
           d == Disconnected(s, id, o)
       IN /\ IF s.heap[o].client # NoClient
             THEN /\ Commit(s, Suspend(tasks,
                              Task("disconnect", "logout", id, o, s.heap[o].client, <<>>)))
                  /\ Out(NoResp, <<>>)
             ELSE /\ Commit(d.store, tasks)
                  /\ Out(d.resp, <<>>)
          /\ UNCHANGED restore

\* src/index.js:416 POST /api/disconnect, after the await of logout: destroy is
\* called on the client the record holds now; a throw of either skips to line 422
DisconnectLoggedOut(t, result) ==
  LET s   == Closed(Store, t.client, result)
      cur == s.heap[t.session].client
      d   == Disconnected(s, t.conn, t.session)
  IN /\ t.kind = "disconnect" /\ t.pc = "logout"
     /\ result \in logout(clients[t.client])
     /\ IF result = "throws" \/ cur = NoClient
        THEN /\ Commit(d.store, tasks \ {t})
             /\ Out(d.resp, <<>>)
        ELSE /\ Commit(s, Suspend(tasks \ {t},
                         [t EXCEPT !.pc = "destroy", !.client = cur, !.n = 1]))
             /\ Out(NoResp, <<>>)
     /\ UNCHANGED restore

\* src/index.js:422 POST /api/disconnect, after the await of destroy
DisconnectDestroyed(t, result) ==
  LET d == Disconnected(Closed(Store, t.client, result), t.conn, t.session) IN
  /\ t.kind = "disconnect" /\ t.pc = "destroy"
  /\ result \in destroy(clients[t.client])
  /\ Commit(d.store, tasks \ {t})
  /\ Out(d.resp, <<>>)
  /\ UNCHANGED restore

\* ---------------------------------------------------------- reconnect
\* src/index.js:452 the end of reconnect
Reconnected(s, id, o, webhook_url) ==
  LET s1 == [s EXCEPT !.heap[o].client = NoClient,
                      !.heap[o].status = "disconnected",
                      !.heap[o].qr = NoQr]
      s2 == IF Truthy(webhook_url)
            THEN [s1 EXCEPT !.heap[o].webhookUrl = webhook_url] ELSE s1
  IN [store |-> initClient(s2, id, s2.heap[o].webhookUrl),
      resp  |-> Reply("reconnect", id, 200, 465, [status |-> "reconnecting"])]

\* src/index.js:431 POST /api/reconnect, up to the await of destroy
Reconnect(body) ==
  LET id == ConnId(body) IN
  IF ~Truthy(id)
  THEN /\ Out(Required("reconnect", 436), <<>>)
       /\ UNCHANGED <<sessions, heap, clients, tasks, restore>>
  ELSE LET s == getSession(Store, id)
           o == s.sessions[id]
           r == Reconnected(s, id, o, body.webhook_url)
       IN /\ IF s.heap[o].client # NoClient
             THEN /\ Commit(s, Suspend(tasks,
                      Task("reconnect", "destroy", id, o, s.heap[o].client, <<body.webhook_url>>)))
                  /\ OutRequest(NoResp, <<>>, id, body.webhook_url)
             ELSE /\ Commit(r.store, tasks)
                  /\ OutRequest(r.resp, <<>>, id, body.webhook_url)
          /\ UNCHANGED restore

\* src/index.js:452 POST /api/reconnect, after the await of destroy
ReconnectDestroyed(t, result) ==
  LET r == Reconnected(Closed(Store, t.client, result), t.conn, t.session, t.locals[1]) IN
  /\ t.kind = "reconnect"
  /\ result \in destroy(clients[t.client])
  /\ Commit(r.store, tasks \ {t})
  /\ OutStart(r.resp, <<>>, t.conn)
  /\ UNCHANGED restore

Outcomes == {"closed", "closing", "throws"}


\* ---------------------------------------------- periodic keep-alive
Known(s) == {id \in Ids : s.sessions[id] # NoObj}

\* The orders Object.entries can list a set of keys in
Orders(S) == {q \in [1..Cardinality(S) -> S] : \A i, j \in DOMAIN q : q[i] = q[j] => i = j}

\* src/index.js:581 the loop of the sweep, from the entry at the head of `queue` to
\* the first await: an entry whose record holds no client by now makes line 583
\* throw a TypeError, which line 594 catches.
RECURSIVE SweepFrom(_, _, _)
SweepFrom(s, posts, queue) ==
  IF queue = <<>>
  THEN [store |-> s, posts |-> posts, await |-> {}]
  ELSE LET id == Head(queue)[1]
           o  == Head(queue)[2]
       IN IF s.heap[o].client = NoClient
          THEN SweepFrom([s EXCEPT !.heap[o].status = "disconnected"],
                         Append(posts, sendStatusCallback(id, "disconnected", Null)),
                         Tail(queue))
          ELSE [store |-> s, posts |-> posts,
                await |-> {Task("sweep", "getState", id, o, s.heap[o].client, Tail(queue))}]

\* src/index.js:575 the keep-alive interval, up to the first await of getState
KeepAliveSweep ==
  LET connectedSessions ==
        {id \in Known(Store) : heap[sessions[id]].status = "connected"
                               /\ heap[sessions[id]].client # NoClient}
  IN /\ connectedSessions # {}
     /\ \E q \in Orders(connectedSessions) :
          LET r == SweepFrom(Store, <<>>, [i \in DOMAIN q |-> <<q[i], sessions[q[i]]>>])
          IN /\ Commit(r.store, IF r.await = {} THEN tasks
                                ELSE Suspend(tasks, CHOOSE x \in r.await : TRUE))
             /\ Out(NoResp, r.posts)
     /\ UNCHANGED restore

\* src/index.js:584 the keep-alive interval, after an await of getState (which has
\* no timer here), on to the next entry
KeepAliveSweepReturned(t, state) ==
  LET o  == t.session
      s1 == IF state = "error"
            THEN [Store EXCEPT !.heap[o].status = "disconnected",
                               !.heap[o].client = NoClient]
            ELSE IF state # "CONNECTED"
            THEN [Store EXCEPT !.heap[o].inactive = FALSE,
                               !.heap[o].status = "disconnected",
                               !.heap[o].client = NoClient]
            ELSE [Store EXCEPT !.heap[o].inactive = FALSE]
      p1 == IF state = "CONNECTED" THEN <<>>
            ELSE <<sendStatusCallback(t.conn, "disconnected", Null)>>
      r  == SweepFrom(s1, p1, t.locals)
  IN /\ t.kind = "sweep"
     /\ state \in getState(clients[t.client]) \ {"timeout"}
     /\ Commit(r.store, IF r.await = {} THEN tasks \ {t}
                        ELSE Suspend(tasks \ {t}, CHOOSE x \in r.await : TRUE))
     /\ Out(NoResp, r.posts)
     /\ UNCHANGED restore

\* ----------------------------------------------------- idle eviction
\* src/index.js:609 the test of the cleanup interval
Inactive(rec) == rec.status = "disconnected" /\ rec.inactive

RECURSIVE SuspendAll(_, _)
SuspendAll(T, new) ==
  IF new = {} THEN T
  ELSE LET t == CHOOSE x \in new : TRUE IN SuspendAll(Suspend(T, t), new \ {t})

\* src/index.js:604 the cleanup interval: every callback of the forEach, each up to
\* its await of destroy, or to its end where the record holds no client
Cleanup ==
  LET old  == {id \in Known(Store) : Inactive(heap[sessions[id]])}
      gone == {id \in old : heap[sessions[id]].client = NoClient}
  IN /\ old # {}
     /\ Commit([Store EXCEPT !.sessions = [id \in Ids |-> IF id \in gone THEN NoObj ELSE @[id]]],
               SuspendAll(tasks, {Task("cleanup", "destroy", id, sessions[id],
                                       heap[sessions[id]].client, <<>>) : id \in old \ gone}))
     /\ OutDeleted(NoResp, <<>>, gone)
     /\ UNCHANGED restore

\* src/index.js:616 a callback of the cleanup, after its await of destroy
CleanupDestroyed(t, result) ==
  /\ t.kind = "cleanup"
  /\ result \in destroy(clients[t.client])
  /\ Commit([Closed(Store, t.client, result) EXCEPT !.sessions[t.conn] = NoObj], tasks \ {t})
  /\ OutDeleted(NoResp, <<>>, {t.conn})
  /\ UNCHANGED restore

\* src/index.js:31 a call of getSession by itself
GetSession(id) ==
  /\ Commit(getSession(Store, id), tasks)
  /\ Out(NoResp, <<>>)
  /\ UNCHANGED restore

\* ------------------------------------------------------------ startup
\* one turn of the loop, were the loop to end once a started session has failed
RestoreNext_StopsAfterFailure ==
  /\ restore # <<>>
  /\ IF \E o \in DOMAIN heap : heap[o] # Free /\ heap[o].status = "disconnected"
     THEN /\ restore' = <<>>
          /\ UNCHANGED <<sessions, heap, clients, tasks>>
     ELSE /\ Commit(initClient(Store, Head(restore), Null), tasks)
          /\ restore' = Tail(restore)
  /\ OutStart(NoResp, <<>>, Head(restore))

\* src/index.js:283 restoreSessions: one turn of the loop, up to its humanDelay
RestoreNext ==
  /\ restore # <<>>
  /\ Commit(initClient(Store, Head(restore), Null), tasks)
  /\ restore' = Tail(restore)
  /\ OutStart(NoResp, <<>>, Head(restore))

\* -------------------------------------------------------------- clock
\* More than maxInactive of time passes.  (Only the cleanup reads the clock, so a
\* shorter passage of time changes nothing the code can see.)
Tick ==
  /\ \E o \in DOMAIN heap : heap[o] # Free /\ ~heap[o].inactive
  /\ heap' = [o \in DOMAIN heap |->
                IF heap[o] # Free THEN [heap[o] EXCEPT !.inactive = TRUE] ELSE heap[o]]
  /\ Out(NoResp, <<>>)
  /\ UNCHANGED <<sessions, clients, tasks, restore>>

Init ==
  /\ sessions = [id \in Ids |-> NoObj]
  /\ heap = [o \in ObjIds |-> Free]
  /\ clients = [h \in Handles |-> Free]
  /\ tasks = {}
  /\ restore \in {<<>>} \cup {<<id>> : id \in Callers}
  /\ resp = NoResp
  /\ emitted = <<>>
  /\ timedOut = {}
  /\ supplied = [id \in Ids |-> Null]

Next ==
  \/ \E body \in GetQrBodies : GetQr(body)
  \/ \E body \in IdBodies : Status(body)
  \/ \E t \in tasks, state \in WAStates \cup {"error", "timeout"} : StatusVerified(t, state)
  \/ \E body \in IdBodies : KeepAlive(body)
  \/ \E t \in tasks, state \in WAStates \cup {"error", "timeout"} : KeepAliveVerified(t, state)
  \/ \E body \in SendBodies : SendMessage(body)
  \/ \E t \in tasks, state \in WAStates \cup {"error", "timeout"} : SendVerified(t, state)
  \/ \E t \in tasks : SendCall(t)
  \/ \E t \in tasks, result \in sendMessage([phase |-> "ready"]) : SendReturned(t, result)
  \/ \E body \in IdBodies : Disconnect(body)
  \/ \E t \in tasks, result \in Outcomes : DisconnectLoggedOut(t, result)
  \/ \E t \in tasks, result \in Outcomes : DisconnectDestroyed(t, result)
  \/ \E body \in GetQrBodies : Reconnect(body)
  \/ \E t \in tasks, result \in Outcomes : ReconnectDestroyed(t, result)
  \/ KeepAliveSweep
  \/ \E t \in tasks, state \in WAStates \cup {"error"} : KeepAliveSweepReturned(t, state)
  \/ Cleanup
  \/ \E t \in tasks, result \in Outcomes : CleanupDestroyed(t, result)
  \/ RestoreNext
  \/ Tick
  \/ AdapterEvent

Spec == Init /\ [][Next]_vars

\* ------------------------------------------- destination normalisation
\* Every destination of at most MaxLen characters, in a send-message handler that
\* passed both checks of a connected record and is about to call sendMessage.
Destinations == UNION {[1..n -> Chars] : n \in 1..MaxLen}

InitNorm ==
  /\ sessions = [id \in Ids |-> IF id = "c1" THEN 1 ELSE NoObj]
  /\ heap = [o \in ObjIds |->
               IF o = 1
               THEN [client |-> 1, qr |-> NoQr, status |-> "connected",
                     phone |-> "40712345678", webhookUrl |-> Null, inactive |-> FALSE]
               ELSE Free]
  /\ clients = [h \in Handles |->
                  IF h = 1
                  THEN [conn |-> "c1", session |-> 1, phase |-> "ready", init |-> "done"]
                  ELSE Free]
  /\ \E to \in Destinations :
       tasks = {Task("send-message", "humanDelay", "c1", 1, 1, <<to>>)}
  /\ restore = <<>>
  /\ resp = NoResp
  /\ emitted = <<>>
  /\ timedOut = {}
  /\ supplied = [id \in Ids |-> Null]

NextNorm ==
  \/ \E t \in tasks : SendCall(t)
  \/ \E t \in tasks, result \in sendMessage([phase |-> "ready"]) : SendReturned(t, result)

NormSpec == InitNorm /\ [][NextNorm]_vars

\* a start with no session directory saved
PairingInit == Init /\ restore = <<>>

\* ------------------------------------------------ incomplete requests
\* Requests that lack a required field, to every endpoint, among get-qr requests,
\* the events of pairing and the passing of time.
Anonymous == [connection_id : {Null, ""}, instance_id : {Null}]
AnonymousStart ==
  [connection_id : {Null, ""}, instance_id : {Null}, webhook_url : Webhooks \cup {Null}]
Incomplete ==
  {body \in [connection_id : Callers \cup {Null}, instance_id : {Null},
             to : {<<>>, <<"4">>}, message : {Null, "", "hi"}] :
     ~Truthy(body.connection_id) \/ body.to = <<>> \/ body.message \in {Null, ""}}

ValidationNext ==
  \/ \E body \in GetQrBodies : GetQr(body)
  \/ \E h \in Constructed, qr \in QrCodes : OnQr(h, qr)
  \/ \E t \in tasks, ok \in BOOLEAN : OnQrRendered(t, ok)
  \/ \E h \in Constructed : OnAuthenticated(h)
  \/ \E h \in Constructed : OnReady(h)
  \/ \E t \in tasks, user \in Phones \cup {Null} : OnReadyPatched(t, user)
  \/ Tick
  \/ \E body \in AnonymousStart : GetQr(body)
  \/ \E body \in Anonymous : Status(body)
  \/ \E body \in Anonymous : Disconnect(body)
  \/ \E body \in AnonymousStart : Reconnect(body)
  \/ \E body \in Incomplete : SendMessage(body)
  \/ \E body \in Anonymous : KeepAlive(body)

ValidationSpec == PairingInit /\ [][ValidationNext]_vars

\* ------------------------------------------------- the pairing scenario
\* A fresh identifier, get-qr and status requests for it, and the events of the one
\* Client up to ready; every liveness check finds the state CONNECTED.
PairingNext ==
  \/ \E body \in GetQrBodies : GetQr(body)
  \/ \E h \in Constructed, qr \in QrCodes : OnQr(h, qr)
  \/ \E t \in tasks, ok \in BOOLEAN : OnQrRendered(t, ok)
  \/ \E h \in Constructed : OnAuthenticated(h)
  \/ \E h \in Constructed : OnReady(h)
  \/ \E t \in tasks, user \in Phones \cup {Null} : OnReadyPatched(t, user)
  \/ \E body \in IdBodies : Status(body)
  \/ \E t \in tasks : StatusVerified(t, "CONNECTED")
  \/ Tick

PairingSpec == PairingInit /\ [][PairingNext]_vars

\* ----------------------------------------------------- notifications
\* Pairing, incoming messages, a disconnect, status queries and sends with every
\* outcome of their checks, and the settling of the notifications they post.
NotifyNext ==
  \/ \E body \in GetQrBodies : GetQr(body)
  \/ \E h \in Constructed, qr \in QrCodes : OnQr(h, qr)
  \/ \E t \in tasks, ok \in BOOLEAN : OnQrRendered(t, ok)
  \/ \E h \in Constructed : OnAuthenticated(h)
  \/ \E h \in Constructed : OnReady(h)
  \/ \E t \in tasks, user \in Phones \cup {Null} : OnReadyPatched(t, user)
  \/ \E h \in Constructed : OnMessage(h)
  \/ \E h \in Constructed : OnDisconnected(h)
  \/ \E body \in IdBodies : Status(body)
  \/ \E t \in tasks, state \in WAStates \cup {"error", "timeout"} : StatusVerified(t, state)
  \/ \E body \in SendBodies : SendMessage(body)
  \/ \E t \in tasks, state \in WAStates \cup {"error", "timeout"} : SendVerified(t, state)
  \/ \E t \in tasks : SendCall(t)
  \/ \E t \in tasks, result \in sendMessage([phase |-> "ready"]) : SendReturned(t, result)
  \/ \E outcome \in PostOutcomes : PostSettled(outcome)

NotifySpec == PairingInit /\ [][NotifyNext]_vars

\* ------------------------------------------------------- webhook URLs
\* Start and reconnect requests with two webhook URLs or none, among restore,
\* disconnect, adapter events, failing liveness checks and the cleanup.
Hooks == {"http://a", "http://b"}
WebhookBodies == [connection_id : Callers, instance_id : {Null}, webhook_url : Hooks \cup {Null}]

WebhookNext ==
  \/ \E body \in WebhookBodies : GetQr(body)
  \/ \E body \in WebhookBodies : Reconnect(body)
  \/ \E t \in tasks, result \in Outcomes : ReconnectDestroyed(t, result)
  \/ \E body \in IdBodies : Disconnect(body)
  \/ \E t \in tasks, result \in Outcomes : DisconnectLoggedOut(t, result)
  \/ \E t \in tasks, result \in Outcomes : DisconnectDestroyed(t, result)
  \/ RestoreNext
  \/ \E h \in Constructed : OnAuthenticated(h)
  \/ \E h \in Constructed : OnReady(h)
  \/ \E t \in tasks, user \in Phones \cup {Null} : OnReadyPatched(t, user)
  \/ \E h \in Constructed : OnDisconnected(h)
  \/ \E h \in Constructed : OnInitError(h)
  \/ \E body \in IdBodies : Status(body)
  \/ \E t \in tasks, state \in WAStates \cup {"error", "timeout"} : StatusVerified(t, state)
  \/ Cleanup
  \/ \E t \in tasks, result \in Outcomes : CleanupDestroyed(t, result)
  \/ Tick

WebhookSpec == Init /\ [][WebhookNext]_vars

\* ------------------------------------------------------------ restore
\* Startup with one or two session directories: the turns of the restore loop, the
\* events of the Clients it starts, get-qr requests, and the cleanup.
Directories == {<<"c1">>, <<"c1", "c2">>, <<"c2", "c1">>}

RestoreInit ==
  /\ sessions = [id \in Ids |-> NoObj]
  /\ heap = [o \in ObjIds |-> Free]
  /\ clients = [h \in Handles |-> Free]
  /\ tasks = {}
  /\ restore \in Directories
  /\ resp = NoResp
  /\ emitted = <<>>
  /\ timedOut = {}
  /\ supplied = [id \in Ids |-> Null]

RestoreSteps ==
  \/ RestoreNext
  \/ \E body \in GetQrBodies : GetQr(body)
  \/ \E h \in Constructed, qr \in QrCodes : OnQr(h, qr)
  \/ \E t \in tasks, ok \in BOOLEAN : OnQrRendered(t, ok)
  \/ \E h \in Constructed : OnAuthenticated(h)
  \/ \E h \in Constructed : OnReady(h)
  \/ \E t \in tasks, user \in Phones \cup {Null} : OnReadyPatched(t, user)
  \/ \E h \in Constructed : OnAuthFailure(h)
  \/ \E h \in Constructed : OnInitError(h)
  \/ Cleanup
  \/ Tick

RestoreSpec == RestoreInit /\ [][RestoreSteps]_vars

\* ------------------------------------------------------------- lookup
\* Calls of getSession, for an identifier of a caller and for an inherited key,
\* among the steps of pairing, a disconnect, the passing of time and the cleanup.
LookupIds == Callers \cup Inherited

LookupNext ==
  \/ \E id \in LookupIds : GetSession(id)
  \/ \E body \in GetQrBodies : GetQr(body)
  \/ \E h \in Constructed, qr \in QrCodes : OnQr(h, qr)
  \/ \E t \in tasks, ok \in BOOLEAN : OnQrRendered(t, ok)
  \/ \E h \in Constructed : OnAuthenticated(h)
  \/ \E h \in Constructed : OnReady(h)
  \/ \E t \in tasks, user \in Phones \cup {Null} : OnReadyPatched(t, user)
  \/ \E h \in Constructed : OnDisconnected(h)
  \/ Tick
  \/ Cleanup

LookupSpec == PairingInit /\ [][LookupNext]_vars

\* ----------------------------------------------------------- eviction
\* Start and reconnect requests, the events of the Clients, the passing of time and
\* the cleanup, with room for the record a handler still holds after the cleanup
\* removed it and for the record created in its place.
EvictionInit ==
  /\ sessions = [id \in Ids |-> NoObj]
  /\ heap = [o \in 1..(MaxObjsEvicted + 1) |-> Free]
  /\ clients = [h \in Handles |-> Free]
  /\ tasks = {}
  /\ restore = <<>>
  /\ resp = NoResp
  /\ emitted = <<>>
  /\ timedOut = {}
  /\ supplied = [id \in Ids |-> Null]

EvictionNext ==
  \/ \E body \in GetQrBodies : GetQr(body)
  \/ \E body \in GetQrBodies : Reconnect(body)
  \/ \E t \in tasks, result \in Outcomes : ReconnectDestroyed(t, result)
  \/ \E h \in Constructed, qr \in QrCodes : OnQr(h, qr)
  \/ \E t \in tasks, ok \in BOOLEAN : OnQrRendered(t, ok)
  \/ \E h \in Constructed : OnDisconnected(h)
  \/ \E h \in Constructed : OnInitError(h)
  \/ Cleanup
  \/ Tick

EvictionSpec == EvictionInit /\ [][EvictionNext]_vars

\* ------------------------------------------------ two connected sessions
\* Two identifiers that have paired and are connected, status queries for both and
\* the keep-alive interval.  Every call of getState() may settle; the fairness
\* below leaves out the getState() the interval awaits on the Client of Hung,
\* which has no timer (src/index.js:583), so the behaviours in which that call
\* never settles are among those of SweepFairSpec.
Hung == "c1"

\* the record and the Client of identifier number i, after 'ready'
Connected(i) ==
  [client |-> i, qr |-> NoQr, status |-> "connected", phone |-> "40712345678",
   webhookUrl |-> Null, inactive |-> FALSE]
Ready(id, i) == [conn |-> id, session |-> i, phase |-> "ready", init |-> "done"]

SweepInit ==
  /\ sessions = [id \in Ids |-> IF id = "c1" THEN 1 ELSE 2]
  /\ heap = [o \in 1..(MaxObjsSwept + 1) |-> IF o <= 2 THEN Connected(o) ELSE Free]
  /\ clients = [h \in Handles |->
                  IF h = 1 THEN Ready("c1", 1) ELSE IF h = 2 THEN Ready("c2", 2) ELSE Free]
  /\ tasks = {}
  /\ restore = <<>>
  /\ resp = NoResp
  /\ emitted = <<>>
  /\ timedOut = {}
  /\ supplied = [id \in Ids |-> Null]

SweepBodies == [connection_id : Ids, instance_id : {Null}]

\* the continuation of the interval after a getState() of a Client of `ids`
SweepReturned(ids) ==
  \E t \in tasks, state \in WAStates \cup {"error"} :
    t.conn \in ids /\ KeepAliveSweepReturned(t, state)

\* the continuation of a status query or of a keep-alive request: the race of
\* src/index.js:311 always settles
StatusSettled ==
  \E t \in tasks, state \in WAStates \cup {"error", "timeout"} :
    StatusVerified(t, state) \/ KeepAliveVerified(t, state)

SweepNext ==
  \/ \E body \in SweepBodies : Status(body)
  \/ \E body \in SweepBodies : KeepAlive(body)
  \/ StatusSettled
  \/ KeepAliveSweep
  \/ SweepReturned({Hung})
  \/ SweepReturned(Ids \ {Hung})

SweepSpec == SweepInit /\ [][SweepNext]_vars

\* a suspended handler whose await settles: every await of these handlers but the
\* getState() of the interval on the Client of Hung
Settles == StatusSettled \/ SweepReturned(Ids \ {Hung})

\* The interval fires every 3 minutes whatever else is suspended
\* (src/index.js:601); a suspended handler runs on once what it awaits has settled.
SweepFairSpec == SweepSpec /\ SF_vars(KeepAliveSweep) /\ WF_vars(Settles)

\* ------------------------------------------------- requests and timers
\* A connected session, the status, keep-alive and send-message requests for it,
\* and a new start after it was lost.  The Client may answer getState() and
\* sendMessage() or not; what is sure to happen is that the timers fire: the one
\* verifyConnectionState races getState() with (src/index.js:308) and the 30 s one
\* the handler races sendMessage() with (src/index.js:521).  The step SendCall
\* follows `await applyRuntimePatches` (src/index.js:507), which awaits
\* page.evaluate of the Client's page with no timer (src/index.js:61), and then
\* humanDelay: it is taken once that evaluate has settled, if it does.
RequestInit ==
  /\ sessions = [id \in Ids |-> IF id = "c1" THEN 1 ELSE NoObj]
  /\ heap = [o \in ObjIds |-> IF o = 1 THEN Connected(1) ELSE Free]
  /\ clients = [h \in Handles |-> IF h = 1 THEN Ready("c1", 1) ELSE Free]
  /\ tasks = {}
  /\ restore = <<>>
  /\ resp = NoResp
  /\ emitted = <<>>
  /\ timedOut = {}
  /\ supplied = [id \in Ids |-> Null]

RequestSends == {body \in SendBodies : body.to # <<>>}

\* a timer fires first and the handler that raced it runs on
TimerFires ==
  \E t \in tasks :
    \/ StatusVerified(t, "timeout")
    \/ KeepAliveVerified(t, "timeout")
    \/ SendVerified(t, "timeout")
    \/ SendReturned(t, "timeout")

\* the Client answers first
ClientAnswers ==
  \/ \E t \in tasks, state \in WAStates \cup {"error"} :
       StatusVerified(t, state) \/ KeepAliveVerified(t, state) \/ SendVerified(t, state)
  \/ \E t \in tasks, result \in sendMessage([phase |-> "ready"]) \ {"timeout"} :
       SendReturned(t, result)

RequestNext ==
  \/ \E body \in IdBodies : Status(body)
  \/ \E body \in IdBodies : KeepAlive(body)
  \/ \E body \in RequestSends : SendMessage(body)
  \/ TimerFires
  \/ ClientAnswers
  \/ \E t \in tasks : SendCall(t)
  \/ \E body \in GetQrBodies : GetQr(body)
  \/ \E h \in Constructed : OnAuthenticated(h)
  \/ \E h \in Constructed : OnReady(h)
  \/ \E t \in tasks, user \in Phones : OnReadyPatched(t, user)

RequestSpec == RequestInit /\ [][RequestNext]_vars

RequestFairSpec == RequestSpec /\ WF_vars(TimerFires)

\* =====================================================================
\* The claims
\* =====================================================================
\* the record the registry holds for id (defined where Has(id))
Has(id) == sessions[id] # NoObj
Rec(id) == heap[sessions[id]]

Started == {"connecting", "qr_pending", "connected"}

\* C1: for every connection identifier at most one adapter handle is live
\* (constructed by initClient and neither destroyed nor ended by the adapter).
C1_AtMostOneLiveHandle ==
  \A id \in Ids : Cardinality({h \in Live(Store) : clients[h].conn = id}) <= 1

C3_PhoneOnlyWhenConnected ==
  \A id \in Ids : (Has(id) /\ Rec(id).phone # Null) => Rec(id).status = "connected"

\* C4: a record's pairing payload is null whenever its status is not qr_pending.
C4_QrOnlyWhenPending ==
  \A id \in Ids : (Has(id) /\ Rec(id).status # "qr_pending") => Rec(id).qr = NoQr

\* the answer 400 with needs_reconnect
Refused(r) ==
  /\ r.ep = "send-message" /\ r.code = 400
  /\ "needs_reconnect" \in DOMAIN r.body /\ r.body.needs_reconnect = TRUE

NotSendable(id) ==
  ~Has(id) \/ Rec(id).client = NoClient \/ Rec(id).status # "connected"

WellFormed(body) == Truthy(ConnId(body)) /\ body.to # <<>> /\ Truthy(body.message)

C6_DisconnectedAfterTimeout ==
  (resp.ep = "status" /\ resp.code = 200 /\ resp.conn \in timedOut)
    => resp.body.status = "disconnected"

\* C7: when the liveness re-check of a send-message fails (timeout, error, or a state
\* other than CONNECTED), the request is answered 400 with needs_reconnect, no send
\* is started, and the record the handler holds has status disconnected.
C7_FailedRecheckRefused ==
  [][\A t \in tasks, state \in (WAStates \cup {"error", "timeout"}) \ {"CONNECTED"} :
       (t.kind = "send-message" /\ t.pc = "getState" /\ SendVerified(t, state))
         => /\ Refused(resp')
            /\ tasks' = tasks \ {t}
            /\ heap'[t.session] # Free => heap'[t.session].status = "disconnected"]_vars

\* a send-message has been refused by the re-check, which found the state OPENING
C7_RecheckFailed ==
  /\ resp.ep = "send-message" /\ resp.line = 496
  /\ resp.body.reason = <<"state_", "OPENING">>
  /\ Has(resp.conn) /\ Rec(resp.conn).status = "disconnected"

\* C8: a get-qr for an identifier whose status is qr_pending returns the stored
\* pairing payload with status qr_pending, constructs no handle, and leaves the
\* record's status, payload and handle unchanged.
C8_GetQrIdempotent ==
  [][\A body \in GetQrBodies :
       LET id == ConnId(body) IN
       (resp'.ep = "get-qr" /\ Has(id) /\ Rec(id).status = "qr_pending" /\ GetQr(body))
         => /\ resp'.body = [qr |-> Rec(id).qr, status |-> "qr_pending"]
            /\ clients' = clients
            /\ sessions'[id] = sessions[id]
            /\ heap'[sessions[id]].status = "qr_pending"
            /\ heap'[sessions[id]].qr = Rec(id).qr
            /\ heap'[sessions[id]].client = Rec(id).client]_vars

IsDigit(c) == c \in {"0", "1", "2", "3", "4", "5", "6", "7", "8", "9"}

\* C9: the destination passed to sendMessage is the input itself where the input
\* contains "@", and otherwise the digits of the input, in order, followed by @c.us.
C9_DestinationNormalized ==
  \A t \in tasks :
    (t.kind = "send-message" /\ t.pc = "sendMessage")
      => LET to == t.locals[1] IN
         t.locals[2] = IF \E i \in DOMAIN to : to[i] = "@"
                       THEN to
                       ELSE SelectSeq(to, IsDigit) \o <<"@", "c", ".", "u", "s">>

\* a send is in flight whose input had no "@" and lost a non-digit
C9_Stripped ==
  \E t \in tasks :
    /\ t.kind = "send-message" /\ t.pc = "sendMessage"
    /\ t.locals[1] = <<"+", "4", " ">>
    /\ t.locals[2] = <<"4", "@", "c", ".", "u", "s">>

\* the answer 400 that changes nothing
Rejected ==
  /\ resp'.code = 400
  /\ sessions' = sessions /\ heap' = heap /\ clients' = clients /\ tasks' = tasks

\* C12: a request that lacks a required field (no connection_id and no instance_id
\* on any endpoint, no `to` or no `message` on send-message) is answered 400 and
\* changes neither the registry nor any record, its last activity included.
C12_IncompleteRejected ==
  [][/\ \A body \in AnonymousStart : (GetQr(body) \/ Reconnect(body)) => Rejected
     /\ \A body \in Anonymous :
          (Status(body) \/ Disconnect(body) \/ KeepAlive(body)) => Rejected
     /\ \A body \in Incomplete : SendMessage(body) => Rejected]_vars

\* a send-message without a destination has been rejected, the record it names
\* being inactive for longer than maxInactive and still so
C12_RejectedUntouched ==
  /\ resp.ep = "send-message" /\ resp.line = 474 /\ resp.conn = "c1"
  /\ Has("c1") /\ Rec("c1").inactive /\ Rec("c1").status = "qr_pending"

\* C13: when the send fails after the re-check passed, a transport-fatal error
\* (Protocol error, Session closed) forces the record to disconnected with no
\* handle and is answered 400 with needs_reconnect; every other failure, the send
\* timeout included, is answered 500 and leaves the record's status and handle.
C13_SendFailure ==
  [][\A t \in tasks, result \in sendMessage([phase |-> "ready"]) \ {"ok"} :
       (t.kind = "send-message" /\ t.pc = "sendMessage" /\ SendReturned(t, result))
         => LET rec == heap[t.session]
                new == heap'[t.session]
            IN IF result \in {"Protocol error", "Session closed"}
               THEN /\ Refused(resp')
                    /\ new # Free => (new.status = "disconnected" /\ new.client = NoClient)
               ELSE /\ resp'.code = 500
                    /\ new # Free => (new.status = rec.status /\ new.client = rec.client)
    ]_vars

\* a send has timed out and been answered 500, the record still connected
C13_TimedOutKept ==
  /\ resp.ep = "send-message" /\ resp.code = 500 /\ resp.body.error = "timeout"
  /\ Has(resp.conn) /\ Rec(resp.conn).status = "connected"
  /\ Rec(resp.conn).client # NoClient

\* the phase of the Client the record of id holds
Phase(id) ==
  IF Has(id) /\ Rec(id).client # NoClient THEN clients[Rec(id).client].phase ELSE "none"

\* C11: for a fresh identifier, a status query after get-qr and the
\* pairing-payload event returns qr_pending with has_qr true, and a status query
\* after the ready event returns connected with a non-null phone_number.
C11_PairingScenario ==
  \A id \in Callers :
    (resp.ep = "status" /\ resp.conn = id)
      => /\ Phase(id) = "pairing"
              => (resp.body.status = "qr_pending" /\ resp.body.has_qr)
         /\ Phase(id) = "ready"
              => (resp.body.status = "connected" /\ resp.body.phone_number # Null)

\* C14: a notification POST that fails, or never completes, changes no response and
\* no record and is not sent again, and the handler that posted it did not wait for
\* it: settling a POST only takes it off the POSTs in flight, and a request handler
\* that posts a status callback as it ends answers in that very step.
Requests == {"status", "keep-alive", "send-message"}
C14_NotificationIsolated ==
  [][/\ \A outcome \in PostOutcomes :
          PostSettled(outcome)
            => /\ UNCHANGED <<sessions, heap, clients, tasks, restore, resp>>
               /\ emitted' = Tail(emitted)
     /\ \A t \in tasks \ tasks' :
          (t.kind \in Requests /\ emitted' # <<>>)
            => (resp'.ep = t.kind /\ resp'.conn = t.conn)
    ]_vars

\* the status callback of a send that lost the connection has settled, and the
\* answer and the record are as the handler left them
C14_CallbackSettled ==
  /\ resp.ep = "send-message" /\ resp.code = 400 /\ resp.line = 540
  /\ emitted = <<>>
  /\ Has(resp.conn) /\ Rec(resp.conn).status = "disconnected"

\* C15: whenever no reconnect request for the identifier is waiting for its
\* teardown, the record's webhook_url is the last non-empty one a get-qr or reconnect
\* request brought for the identifier (null if none did).
C15_WebhookIsLastSupplied ==
  \A id \in Ids :
    (Has(id) /\ ~\E t \in tasks : t.kind = "reconnect" /\ t.conn = id)
      => Rec(id).webhookUrl = supplied[id]

Registered(id) == id \in Ids /\ sessions[id] # NoObj
GetSessionIdempotent(id) ==
  LET s1 == getSession(Store, id)
      s2 == getSession(s1, id)
  IN /\ IF Registered(id)
        THEN /\ Returned(s1, id) = [Rec(id) EXCEPT !.inactive = FALSE]
             /\ s1 = [Store EXCEPT !.heap[sessions[id]].inactive = FALSE]
        ELSE /\ Returned(s1, id) = NewRecord
             /\ \E o \in ObjIds :
                  /\ heap[o] = Free
                  /\ s1 = [Store EXCEPT !.heap[o] = NewRecord, !.sessions[id] = o]
     /\ s2 = s1
     /\ Returned(s2, id) = Returned(s1, id)

C17_GetSessionIdempotent == \A id \in LookupIds : GetSessionIdempotent(id)

\* C18: after a liveness verification (status query, keep-alive request, send
\* pre-check, keep-alive sweep) whose timer elapsed, whose getState() failed or which
\* found a state other than CONNECTED, the record that was verified has status
\* disconnected and holds no handle.
C18_FailedCheckDropsHandle ==
  [][\A t \in tasks, state \in (WAStates \cup {"error", "timeout"}) \ {"CONNECTED"} :
       (\/ StatusVerified(t, state)
        \/ KeepAliveVerified(t, state)
        \/ SendVerified(t, state)
        \/ (state # "timeout" /\ KeepAliveSweepReturned(t, state)))
         => (heap'[t.session] # Free
               => /\ heap'[t.session].status = "disconnected"
                  /\ heap'[t.session].client = NoClient)
    ]_vars

\* C19: when the Client a record holds emits 'disconnected' or 'auth_failure', or
\* 'change_state' with CONFLICT, UNLAUNCHED or UNPAIRED, the record ends with status
\* disconnected, no payload, no phone and no handle, and one 'disconnected' status
\* callback is posted.
C19_EventDisconnects ==
  [][\A h \in Constructed :
       LET o == clients[h].session IN
       (/\ heap[o] # Free /\ heap[o].client = h
        /\ \/ OnDisconnected(h)
           \/ OnAuthFailure(h)
           \/ \E state \in Invalidating : OnChangeState(h, state))
         => /\ heap'[o] # Free
                 => /\ heap'[o].status = "disconnected"
                    /\ heap'[o].qr = NoQr
                    /\ heap'[o].phone = Null
                    /\ heap'[o].client = NoClient
            /\ emitted' = <<sendStatusCallback(clients[h].conn, "disconnected", Null)>>
    ]_vars

\* C20: every reconnect request, whatever the status of the record before and
\* whatever the teardown of the old Client did, completes with the record of the
\* identifier in status connecting, without payload, holding a Client constructed in
\* that step for the identifier; its webhook_url is the one of the request, or the
\* one stored before if the request has none.
Restarted(id, webhook_url, stored) ==
  /\ sessions'[id] # NoObj
  /\ LET new == heap'[sessions'[id]] IN
     /\ new.status = "connecting"
     /\ new.qr = NoQr
     /\ new.client # NoClient
     /\ clients[new.client] = Free
     /\ clients'[new.client].conn = id
     /\ clients'[new.client].phase = "starting"
     /\ new.webhookUrl = IF Truthy(webhook_url) THEN webhook_url ELSE stored

C20_ReconnectRestarts ==
  [][/\ \A body \in GetQrBodies :
          (Reconnect(body) /\ tasks' = tasks)
            => Restarted(ConnId(body), body.webhook_url,
                         IF Has(ConnId(body)) THEN Rec(ConnId(body)).webhookUrl ELSE Null)
     /\ \A t \in tasks, result \in Outcomes :
          (t.kind = "reconnect" /\ ReconnectDestroyed(t, result))
            => /\ resp'.ep = "reconnect" /\ resp'.code = 200
               /\ Restarted(t.conn, t.locals[1], heap[t.session].webhookUrl)
    ]_vars

\* the step ends an awaited logout() or destroy() of the Client h, or h was closed
\* before
TornDown(h) ==
  \/ clients[h].phase = "closed"
  \/ \E t \in tasks \ tasks' : t.client = h /\ t.pc \in {"logout", "destroy"}

\* C21: whenever a record's adapter handle is dropped or replaced, a teardown of
\* the old handle has been attempted beforehand: the step that takes the Client off
\* the record follows an awaited logout() or destroy() of that Client.
C21_DropAfterTeardown ==
  [][\A o \in DOMAIN heap :
       (/\ heap[o] # Free /\ heap[o].client # NoClient
        /\ heap'[o] # Free /\ heap'[o].client # heap[o].client)
         => TornDown(heap[o].client)]_vars

\* C22: the events of one Client take effect on the record in the order they
\* arrive: once the Client has emitted 'authenticated', 'ready' or 'disconnected'
\* after a 'qr', the update of that 'qr' (payload stored, status qr_pending) is not
\* applied any more.
C22_EventsInOrder ==
  [][\A t \in tasks :
       (/\ t.kind = "qr" /\ clients[t.client].phase # "pairing"
        /\ OnQrRendered(t, TRUE))
         => (heap'[t.session] # Free
               => /\ heap'[t.session].status = heap[t.session].status
                  /\ heap'[t.session].qr = heap[t.session].qr)]_vars

\* the record of id is cached as connected: the test of src/index.js:576
CachedConnected(id) ==
  Has(id) /\ Rec(id).status = "connected" /\ Rec(id).client # NoClient

\* the keep-alive interval has called getState() on the Client of id
SweepChecks(id) == \E t \in tasks : t.kind = "sweep" /\ t.conn = id

Constructs == \E h \in Handles : clients[h] = Free /\ clients'[h] # Free

C26_SendOnlyWhileConnected ==
  [][\A t \in tasks :
       (/\ t.kind = "send-message" /\ t.pc = "humanDelay" /\ SendCall(t)
        /\ \E u \in tasks' : u.kind = "send-message" /\ u.pc = "sendMessage")
         => heap[t.session].status = "connected"]_vars

\* C27: in every reachable state a record whose status is connecting, qr_pending or
\* connected holds a handle (a record without a handle has status disconnected).
C27_ActiveHoldsHandle ==
  \A id \in Ids : (Has(id) /\ Rec(id).status \in Active) => Rec(id).client # NoClient

\* the events of the Client h and the failure of its initialize(): every handler
\* initClient registers that writes the record, its continuations included
EventOf(h) ==
  \/ \E qr \in QrCodes : OnQr(h, qr)
  \/ \E t \in tasks, ok \in BOOLEAN : t.kind = "qr" /\ t.client = h /\ OnQrRendered(t, ok)
  \/ OnAuthenticated(h)
  \/ OnReady(h)
  \/ \E t \in tasks, user \in Phones \cup {Null} :
       t.kind = "ready" /\ t.client = h /\ OnReadyPatched(t, user)
  \/ OnAuthFailure(h)
  \/ OnDisconnected(h)
  \/ \E state \in WAStates : OnChangeState(h, state)
  \/ OnInitError(h)

\* C28: an event, or a failure of initialize(), of a Client that the record no
\* longer holds changes neither the record's status, payload or phone nor the
\* handle the record holds.
C28_StaleEventIgnored ==
  [][\A h \in Constructed :
       LET o == clients[h].session IN
       (heap[o] # Free /\ heap[o].client # h /\ EventOf(h))
         => (heap'[o] # Free
               => /\ heap'[o].status = heap[o].status
                  /\ heap'[o].qr = heap[o].qr
                  /\ heap'[o].phone = heap[o].phone
                  /\ heap'[o].client = heap[o].client)]_vars

\* C10: a record is removed from the registry only in a step before which its
\* status is disconnected and its last activity is older than maxInactive.
C10_OnlyInactiveRemoved ==
  [][\A id \in Ids : (Has(id) /\ sessions'[id] = NoObj) => Inactive(Rec(id))]_vars

====
